---- MODULE Spec2Model ----
(***************************************************************************)
(* Concordance matrix engine of mandos (src/mandos/analysis/distances.py). *)
(*                                                                         *)
(* Five specifications share this module:                                  *)
(*   Spec        JPrimeMatrixCalculator.calc, one loop iteration per step  *)
(*   SpecJPrime  JPrimeMatrixCalculator._j_prime as a function of two hit  *)
(*               collections                                               *)
(*   SpecOrder   _j_prime again, on the collections used to compare the    *)
(*               listing orders of the hits                                *)
(*   SpecPair    _wedge, _vee and the per-pair ratio of _jx on two         *)
(*               confidences                                               *)
(*   SpecWorkers calc with the iterations of its loop run in any order     *)
(*                                                                         *)
(* Floats are modelled by exact non-negative rationals, not-a-number and a *)
(* raised ZeroDivisionError:                                               *)
(*   [kind |-> "num", num |-> n, den |-> d]   n/d in lowest terms          *)
(*   [kind |-> "nan", ...]                    numpy.nan                    *)
(*   [kind |-> "err", ...]                    the exception propagating    *)
(***************************************************************************)
EXTENDS Integers, Sequences, FiniteSets, TLC

\* ------------------------------------------------------------------ bounds
\* hits handed to calc
MaxHits == 3
\* hits of the two collections handed to _j_prime, together
MaxPairHits == 4
\* largest confidence of SpecPair
MaxConfidence == 10
\* hits of the two collections of SpecOrder, together
MaxOrderHits == 4

\* ------------------------------------------------------------ input domains
Origins == {"A", "B"}
DataSources == {"X", "Y"}
Objects == {1, 2}
Confidences == {0, 1, 2}

\* A hit: the attributes of AbstractHit that the engine reads.
HitsOf(origins) ==
  [origin_inchikey : origins, data_source : DataSources,
   object : Objects, confidence : Confidences]

SeqsUpTo(S, n) == UNION {[1..k -> S] : k \in 0..n}

\* ------------------------------------------------------------------ floats
NaN == [kind |-> "nan", num |-> 0, den |-> 1]

ZeroDivisionError == [kind |-> "err", num |-> 0, den |-> 1]

RECURSIVE GCD(_, _)
GCD(a, b) == IF b = 0 THEN a ELSE GCD(b, a % b)

\* the float n/d, d > 0
Float(n, d) ==
  LET g == GCD(n, d)
  IN  [kind |-> "num", num |-> n \div g, den |-> d \div g]

\* math.fsum: the exact sum of a list of floats
RECURSIVE fsum(_)
fsum(values) ==
  IF values = <<>> THEN Float(0, 1)
  ELSE LET x == Head(values)
           r == fsum(Tail(values))
       IN  IF x.kind = "nan" \/ r.kind = "nan" THEN NaN
           ELSE Float(x.num * r.den + r.num * x.den, x.den * r.den)

\* math.sqrt on the perfect squares the weights produce
sqrt(n) == CHOOSE r \in 0..n : r * r = n

\* float(math.fsum(values) / len(values)); an exception raised while the
\* list was being built propagates instead
MeanOf(values) ==
  IF \E i \in 1..Len(values) : values[i].kind = "err" THEN ZeroDivisionError
  ELSE IF Len(values) = 0 THEN ZeroDivisionError
  ELSE LET s == fsum(values)
       IN  IF s.kind = "nan" THEN NaN ELSE Float(s.num, s.den * Len(values))

\* ------------------------------------------------------- AnalysisUtils (Au)
\* Confidence Weight Transform: monotonic, non-negative, elle(0) = 0
elle(c) == c * c

\* the i-th (row-major) index pair of an n-by-m grid
PairAt(k, m) == <<((k - 1) \div m) + 1, ((k - 1) % m) + 1>>

\* Pairwise Evidence Extractor: the confidences (ca, cb) of every pair of a
\* hit of hits1 and a hit of hits2 that refer to the same object
weights_of_pairs(hits1, hits2) ==
  LET n == Len(hits1)
      m == Len(hits2)
      all == [k \in 1..(n * m) |->
                <<hits1[PairAt(k, m)[1]], hits2[PairAt(k, m)[2]]>>]
      Matched(p) == p[1].object = p[2].object
      sel == SelectSeq(all, Matched)
  IN  [k \in 1..Len(sel) |-> <<sel[k][1].confidence, sel[k][2].confidence>>]

RECURSIVE KeysInOrder(_)
\* the distinct origin_inchikey values of hits, in order of first appearance
KeysInOrder(hits) ==
  IF hits = <<>> THEN <<>>
  ELSE LET front == KeysInOrder(SubSeq(hits, 1, Len(hits) - 1))
           k == hits[Len(hits)].origin_inchikey
       IN  IF \E i \in 1..Len(front) : front[i] = k THEN front
           ELSE Append(front, k)

\* Au.hit_multidict(hits, "origin_inchikey"): the items of the mapping
\* key -> list of the hits with that key, in insertion order
hit_multidict(hits) ==
  LET keys == KeysInOrder(hits)
      Of(k) == SelectSeq(hits, LAMBDA h : h.origin_inchikey = k)
  IN  [i \in 1..Len(keys) |-> [key |-> keys[i], hits |-> Of(keys[i])]]

\* --------------------------------------------------- JPrimeMatrixCalculator
\* _wedge with the square root left out; C6 must tell it apart
_wedge_without_sqrt(ca, cb) == elle(ca) * elle(cb)

_wedge(ca, cb) == sqrt(elle(ca) * elle(cb))

\* _vee with the subtrahend left out (the sum 2 * elle(c) for equal
\* confidences); C5 must tell it apart
_vee_without_wedge(ca, cb) == elle(ca) + elle(cb)

_vee(ca, cb) == elle(ca) + elle(cb) - sqrt(elle(ca) * elle(cb))

\* the quotient with a zero divisor coerced to 0; C9 must tell it apart
PairRatioCoerced(ca, cb) ==
  IF _vee(ca, cb) = 0 THEN Float(0, 1)
  ELSE Float(_wedge(ca, cb), _vee(ca, cb))

\* self._wedge(ca, cb) / self._vee(ca, cb)
PairRatio(ca, cb) ==
  IF _vee(ca, cb) = 0 THEN ZeroDivisionError
  ELSE Float(_wedge(ca, cb), _vee(ca, cb))

_jx(hits1, hits2) ==
  LET pair_to_weights == weights_of_pairs(hits1, hits2)
      values == [k \in 1..Len(pair_to_weights) |->
                   PairRatio(pair_to_weights[k][1], pair_to_weights[k][2])]
  IN  MeanOf(values)

SourcesOf(hits) == {hits[i].data_source : i \in 1..Len(hits)}

\* only the first run of consecutive hits of the source (a grouping of
\* unsorted hits by adjacency); C11 must tell it apart
OfSourceFirstRun(hits, source) ==
  LET at == {i \in 1..Len(hits) : hits[i].data_source = source}
      first == CHOOSE i \in at : \A j \in at : i <= j
      InRun(i) == \A j \in first..i : hits[j].data_source = source
  IN  IF at = {} THEN <<>>
      ELSE LET last == CHOOSE i \in first..Len(hits) :
                         InRun(i) /\ (i = Len(hits) \/ ~InRun(i + 1))
           IN  SubSeq(hits, first, last)

OfSource(hits, source) == SelectSeq(hits, LAMBDA h : h.data_source = source)

RECURSIVE SetToSeq(_)
SetToSeq(S) ==
  IF S = {} THEN <<>>
  ELSE LET x == CHOOSE y \in S : TRUE IN <<x>> \o SetToSeq(S \ {x})

\* the union in place of the intersection; C4 must tell it apart
SharedSourcesUnion(hits1, hits2) == SourcesOf(hits1) \cup SourcesOf(hits2)

\* the set of line 35
SharedSources(hits1, hits2) == SourcesOf(hits1) \cap SourcesOf(hits2)

\* the list comprehension of lines 38-44, as a function of the source
JPrimeValues(hits1, hits2) ==
  [source \in SharedSources(hits1, hits2) |->
     _jx(OfSource(hits1, source), OfSource(hits1, source))]

_j_prime(hits1, hits2) ==
  LET sources == SharedSources(hits1, hits2)
      order == SetToSeq(sources)
      by_source == JPrimeValues(hits1, hits2)
      values == [k \in 1..Len(order) |-> by_source[order[k]]]
  IN  IF Cardinality(sources) = 0 THEN NaN ELSE MeanOf(values)

\* ------------------------------------------------ dicts, in insertion order
\* A dict is the sequence of its items [key, val].
DictKeys(d) == [i \in 1..Len(d) |-> d[i].key]

DictHas(d, k) == \E i \in 1..Len(d) : d[i].key = k

DictGet(d, k) == d[CHOOSE i \in 1..Len(d) : d[i].key = k].val

\* d[k] = v
DictPut(d, k, v) ==
  IF DictHas(d, k)
  THEN [i \in 1..Len(d) |-> IF d[i].key = k THEN [key |-> k, val |-> v] ELSE d[i]]
  ELSE Append(d, [key |-> k, val |-> v])

\* data = {c1: {c2: v}}, dropping what was there; C8 must tell it apart
SetCellOverwriting(d, c1, c2, v) ==
  <<[key |-> c1, val |-> <<[key |-> c2, val |-> v]>>]>>

\* data[c1][c2] = v on a defaultdict(dict)
SetCell(d, c1, c2, v) ==
  DictPut(d, c1, DictPut(IF DictHas(d, c1) THEN DictGet(d, c1) ELSE <<>>, c2, v))

\* zip(a, b)
Zip(a, b) ==
  [i \in 1..(IF Len(a) < Len(b) THEN Len(a) ELSE Len(b)) |-> <<a[i], b[i]>>]

RECURSIVE InnerKeys(_)
\* the keys of the inner dicts, in order of first appearance
InnerKeys(d) ==
  IF d = <<>> THEN <<>>
  ELSE LET front == InnerKeys(SubSeq(d, 1, Len(d) - 1))
           last == DictKeys(d[Len(d)].val)
           Fresh(k) == \A i \in 1..Len(front) : front[i] # k
       IN  front \o SelectSeq(last, Fresh)

\* SimilarityDf.from_dict(data): a labelled table with a row per outer key,
\* a column per inner key, and not-a-number in every cell never assigned
from_dict(d) ==
  LET rows == DictKeys(d)
      cols == InnerKeys(d)
  IN  [rows |-> rows, cols |-> cols,
       cells |-> [rc \in {<<rows[i], cols[j]>> : i \in 1..Len(rows), j \in 1..Len(cols)} |->
                    IF DictHas(DictGet(d, rc[1]), rc[2])
                    THEN DictGet(DictGet(d, rc[1]), rc[2]) ELSE NaN]]

NoDf == [rows |-> <<>>, cols |-> <<>>, cells |-> <<>>]

\* -------------------------------------------------------------------- state
VARIABLES
  calc_hits,          \* calc: the argument hits
  inchikey_to_hits,   \* calc: the items of the multidict
  data,               \* calc: the defaultdict(dict) being filled
  pos,                \* calc: index of the next item of the zip
  calc_pc,            \* calc: "start", "loop", "done", "raised"
  result,             \* calc: the returned SimilarityDf
  jp_hits1,           \* _j_prime: the argument hits1
  jp_hits2,           \* _j_prime: the argument hits2
  jp_values,          \* _j_prime: the per-source values, by source
  jp_ret,             \* _j_prime: the returned float
  jp_pc,              \* _j_prime: "call", "ret"
  pr_ca,              \* per-pair ratio: the argument ca
  pr_cb,              \* per-pair ratio: the argument cb
  pr_wedge,           \* per-pair ratio: _wedge(ca, cb)
  pr_vee,             \* per-pair ratio: _vee(ca, cb)
  pr_ratio,           \* per-pair ratio: the quotient of line 49
  pr_pc,              \* per-pair ratio: "call", "ret"
  wk_done,            \* workers: the indices of the pairs already handled
  wk_log              \* workers: the cells (c1, c2) assigned, in order

calc_vars == <<calc_hits, inchikey_to_hits, data, pos, calc_pc, result>>

jp_vars == <<jp_hits1, jp_hits2, jp_values, jp_ret, jp_pc>>

pr_vars == <<pr_ca, pr_cb, pr_wedge, pr_vee, pr_ratio, pr_pc>>

wk_vars == <<wk_done, wk_log>>

vars == <<calc_vars, jp_vars, pr_vars, wk_vars>>

CalcIdle ==
  /\ calc_hits = <<>> /\ inchikey_to_hits = <<>> /\ data = <<>>
  /\ pos = 1 /\ calc_pc = "idle" /\ result = NoDf

JPrimeIdle ==
  /\ jp_hits1 = <<>> /\ jp_hits2 = <<>> /\ jp_values = <<>>
  /\ jp_ret = NaN /\ jp_pc = "idle"

PairIdle ==
  /\ pr_ca = 0 /\ pr_cb = 0 /\ pr_wedge = 0 /\ pr_vee = 0
  /\ pr_ratio = NaN /\ pr_pc = "idle"

WorkersIdle == wk_done = {} /\ wk_log = <<>>

\* --------------------------------------------------------------------- calc
Init ==
  /\ calc_hits \in SeqsUpTo(HitsOf(Origins), MaxHits)
  /\ inchikey_to_hits = <<>> /\ data = <<>>
  /\ pos = 1 /\ calc_pc = "start" /\ result = NoDf
  /\ JPrimeIdle /\ PairIdle /\ WorkersIdle

\* lines 28-29
CalcGroup ==
  /\ calc_pc = "start"
  /\ inchikey_to_hits' = hit_multidict(calc_hits)
  /\ data' = <<>>
  /\ pos' = 1
  /\ calc_pc' = "loop"
  /\ UNCHANGED <<calc_hits, result, jp_vars, pr_vars, wk_vars>>

\* the pairs the for statement of line 30 runs over
LoopPairs == Zip(inchikey_to_hits, inchikey_to_hits)

\* the loop with its first item fetched before the emptiness test, which
\* raises on an empty multidict; C10 must tell it apart
CalcIterPrimed ==
  /\ calc_pc = "loop"
  /\ IF Len(LoopPairs) = 0
     THEN calc_pc' = "raised" /\ UNCHANGED <<data, pos>>
     ELSE /\ pos <= Len(LoopPairs)
          /\ LET v == _j_prime(LoopPairs[pos][1].hits, LoopPairs[pos][2].hits)
             IN  IF v.kind = "err"
                 THEN calc_pc' = "raised" /\ UNCHANGED <<data, pos>>
                 ELSE /\ data' = SetCell(data, LoopPairs[pos][1].key, LoopPairs[pos][2].key, v)
                      /\ pos' = pos + 1
                      /\ calc_pc' = "loop"
  /\ UNCHANGED <<calc_hits, inchikey_to_hits, result, jp_vars, pr_vars, wk_vars>>

\* lines 30-31, one iteration; an exception of _j_prime leaves calc
CalcIter ==
  /\ calc_pc = "loop"
  /\ pos <= Len(LoopPairs)
  /\ LET c1 == LoopPairs[pos][1].key
         hits1 == LoopPairs[pos][1].hits
         c2 == LoopPairs[pos][2].key
         hits2 == LoopPairs[pos][2].hits
         v == _j_prime(hits1, hits2)
     IN  IF v.kind = "err"
         THEN calc_pc' = "raised" /\ UNCHANGED <<data, pos>>
         ELSE /\ data' = SetCell(data, c1, c2, v)
              /\ pos' = pos + 1
              /\ calc_pc' = "loop"
  /\ UNCHANGED <<calc_hits, inchikey_to_hits, result, jp_vars, pr_vars, wk_vars>>

\* line 32, once the loop is exhausted
CalcReturn ==
  /\ calc_pc = "loop"
  /\ pos > Len(LoopPairs)
  /\ result' = from_dict(data)
  /\ calc_pc' = "done"
  /\ UNCHANGED <<calc_hits, inchikey_to_hits, data, pos, jp_vars, pr_vars, wk_vars>>

Next == CalcGroup \/ CalcIter \/ CalcReturn

Spec == Init /\ [][Next]_vars

\* ----------------------------------------------------------------- _j_prime
InitJPrime ==
  /\ jp_hits1 \in SeqsUpTo(HitsOf({"A"}), MaxPairHits)
  /\ jp_hits2 \in SeqsUpTo(HitsOf({"B"}), MaxPairHits - Len(jp_hits1))
  /\ jp_values = <<>> /\ jp_ret = NaN /\ jp_pc = "call"
  /\ CalcIdle /\ PairIdle /\ WorkersIdle

\* lines 34-45
JPrimeCall ==
  /\ jp_pc = "call"
  /\ jp_values' = JPrimeValues(jp_hits1, jp_hits2)
  /\ jp_ret' = _j_prime(jp_hits1, jp_hits2)
  /\ jp_pc' = "ret"
  /\ UNCHANGED <<jp_hits1, jp_hits2, calc_vars, pr_vars, wk_vars>>

NextJPrime == JPrimeCall

SpecJPrime == InitJPrime /\ [][NextJPrime]_vars

\* ------------------------------------------- _j_prime and the listing order
\* the hits of one entity in the runs on listing order; they all refer to
\* one object
OrderHits(origin) == {h \in HitsOf({origin}) : h.object = 1}

InitOrder ==
  /\ jp_hits1 \in SeqsUpTo(OrderHits("A"), MaxOrderHits)
  /\ jp_hits2 \in SeqsUpTo(OrderHits("B"), MaxOrderHits - Len(jp_hits1))
  /\ jp_values = <<>> /\ jp_ret = NaN /\ jp_pc = "call"
  /\ CalcIdle /\ PairIdle /\ WorkersIdle

NextOrder == JPrimeCall

SpecOrder == InitOrder /\ [][NextOrder]_vars

\* ------------------------------------------------------------ per-pair ratio
InitPair ==
  /\ pr_ca \in 0..MaxConfidence
  /\ pr_cb \in 0..MaxConfidence
  /\ pr_wedge = 0 /\ pr_vee = 0 /\ pr_ratio = NaN /\ pr_pc = "call"
  /\ CalcIdle /\ JPrimeIdle /\ WorkersIdle

\* lines 49, 52-56 for one matched pair
PairCall ==
  /\ pr_pc = "call"
  /\ pr_wedge' = _wedge(pr_ca, pr_cb)
  /\ pr_vee' = _vee(pr_ca, pr_cb)
  /\ pr_ratio' = PairRatio(pr_ca, pr_cb)
  /\ pr_pc' = "ret"
  /\ UNCHANGED <<pr_ca, pr_cb, calc_vars, jp_vars, wk_vars>>

NextPair == PairCall

SpecPair == InitPair /\ [][NextPair]_vars

\* ------------------------------------------------ calc, one worker per pair
\* The loop of lines 30-31 with its iterations handed to workers that run in
\* any order. An iteration is the one statement of line 31; evaluating its
\* right-hand side reads the two hit lists only, so a worker is one step.

\* the right-hand side of line 31 with the first cell's value reused once
\* data holds a cell; C12 must tell it apart
CellValueReused(d, hits1, hits2) ==
  IF d = <<>> THEN _j_prime(hits1, hits2) ELSE d[1].val[1].val

\* the right-hand side of line 31, evaluated while data is d
CellValue(d, hits1, hits2) == _j_prime(hits1, hits2)

\* the entities of the worker runs: one more, for three workers
WorkerOrigins == {"A", "B", "C"}

\* the hits of the worker runs; they all refer to one object
WorkerHits == {h \in HitsOf(WorkerOrigins) : h.object = 1}

InitWorkers ==
  /\ calc_hits \in SeqsUpTo(WorkerHits, MaxHits)
  /\ inchikey_to_hits = <<>> /\ data = <<>>
  /\ pos = 1 /\ calc_pc = "start" /\ result = NoDf
  /\ wk_done = {} /\ wk_log = <<>>
  /\ JPrimeIdle /\ PairIdle

\* lines 28-29
WorkersGroup ==
  /\ calc_pc = "start"
  /\ inchikey_to_hits' = hit_multidict(calc_hits)
  /\ data' = <<>>
  /\ calc_pc' = "loop"
  /\ UNCHANGED <<calc_hits, pos, result, jp_vars, pr_vars, wk_vars>>

\* line 31 for the i-th pair of line 30; an exception ends the computation
WorkerCell(i) ==
  /\ calc_pc = "loop"
  /\ i \in (1..Len(LoopPairs)) \ wk_done
  /\ LET c1 == LoopPairs[i][1].key
         c2 == LoopPairs[i][2].key
         v == CellValue(data, LoopPairs[i][1].hits, LoopPairs[i][2].hits)
     IN  IF v.kind = "err"
         THEN calc_pc' = "raised" /\ UNCHANGED <<data, wk_vars>>
         ELSE /\ data' = SetCell(data, c1, c2, v)
              /\ wk_done' = wk_done \cup {i}
              /\ wk_log' = Append(wk_log, <<c1, c2>>)
              /\ calc_pc' = "loop"
  /\ UNCHANGED <<calc_hits, inchikey_to_hits, pos, result, jp_vars, pr_vars>>

\* line 32, once every pair has been handled
WorkersJoin ==
  /\ calc_pc = "loop"
  /\ wk_done = 1..Len(LoopPairs)
  /\ result' = from_dict(data)
  /\ calc_pc' = "done"
  /\ UNCHANGED <<calc_hits, inchikey_to_hits, data, pos, jp_vars, pr_vars, wk_vars>>

NextWorkers ==
  \/ WorkersGroup
  \/ \E i \in 1..MaxHits : WorkerCell(i)
  \/ WorkersJoin

SpecWorkers == InitWorkers /\ [][NextWorkers]_vars

\* ------------------------------------------------------------------- claims
SeqRange(q) == {q[i] : i \in 1..Len(q)}

\* the entity identifiers observed in the argument of calc
ObservedKeys == {calc_hits[i].origin_inchikey : i \in 1..Len(calc_hits)}

\* C1: once calc has returned, for every ordered pair (A, B) of observed
\* entity identifiers the table holds at (row A, column B) the value of
\* _j_prime on A's hits and B's hits.
C1_EveryOrderedPairHoldsJPrime ==
  calc_pc = "done" =>
    \A i, j \in 1..Len(inchikey_to_hits) :
      LET a == inchikey_to_hits[i]
          b == inchikey_to_hits[j]
      IN  /\ <<a.key, b.key>> \in DOMAIN result.cells
          /\ result.cells[<<a.key, b.key>>] = _j_prime(a.hits, b.hits)

\* C2: for every shared source the value _j_prime averages is _jx of hits1's
\* hits of that source and hits2's hits of that source, and the result is
\* the arithmetic mean of those values.
C2_PerSourceScoreTakesOneArgumentOfEach ==
  jp_pc = "ret" =>
    LET sources == SourcesOf(jp_hits1) \cap SourcesOf(jp_hits2)
        order == SetToSeq(sources)
    IN  /\ DOMAIN jp_values = sources
        /\ \A s \in sources :
             jp_values[s] = _jx(OfSource(jp_hits1, s), OfSource(jp_hits2, s))
        /\ sources # {} =>
             jp_ret = MeanOf([k \in 1..Len(order) |-> jp_values[order[k]]])

\* C3: _j_prime(hits1, hits2) equals _j_prime(hits2, hits1).
C3_JPrimeSymmetric ==
  jp_pc = "ret" => jp_ret = _j_prime(jp_hits2, jp_hits1)

\* C4: when the two collections have no data source in common (also when
\* one or both are empty) _j_prime returns not-a-number.
C4_NoSharedSourceGivesNaN ==
  (jp_pc = "ret" /\ SourcesOf(jp_hits1) \cap SourcesOf(jp_hits2) = {})
    => jp_ret = NaN

C4_Witness ==
  /\ jp_pc = "ret"
  /\ jp_hits1 # <<>> /\ jp_hits2 # <<>>
  /\ SourcesOf(jp_hits1) \cap SourcesOf(jp_hits2) = {}
  /\ jp_ret = NaN

\* C5 (as stated): for equal confidences of non-zero weight the per-pair
\* ratio wedge / vee is exactly 1/2.
C5_EqualConfidencesGiveHalf ==
  (pr_pc = "ret" /\ pr_ca = pr_cb /\ elle(pr_ca) # 0)
    => pr_ratio = Float(1, 2)

\* C5 (amended): for equal confidences of non-zero weight vee equals the
\* weight itself and the per-pair ratio wedge / vee is exactly 1.
C5_EqualConfidencesGiveOne ==
  (pr_pc = "ret" /\ pr_ca = pr_cb /\ elle(pr_ca) # 0)
    => /\ pr_wedge = elle(pr_ca)
       /\ pr_vee = elle(pr_ca)
       /\ pr_ratio = Float(1, 1)

C5_Witness ==
  /\ pr_pc = "ret"
  /\ pr_ca = pr_cb /\ pr_ca > 1
  /\ pr_ratio = Float(1, 1)

\* C6 (as stated): for positive confidences 0 <= wedge and 2 * wedge <= vee,
\* that is, the per-pair ratio lies in [0, 1/2].
C6_RatioAtMostHalf ==
  (pr_pc = "ret" /\ pr_ca > 0 /\ pr_cb > 0)
    => (0 <= pr_wedge /\ 2 * pr_wedge <= pr_vee)

\* C6 (amended): for positive confidences 0 <= wedge <= vee and vee > 0,
\* that is, the per-pair ratio is a number in [0, 1].
C6_RatioAtMostOne ==
  (pr_pc = "ret" /\ pr_ca > 0 /\ pr_cb > 0)
    => /\ 0 <= pr_wedge /\ pr_wedge <= pr_vee /\ 0 < pr_vee
       /\ pr_ratio.kind = "num"
       /\ 0 <= pr_ratio.num /\ pr_ratio.num <= pr_ratio.den

C6_Witness ==
  /\ pr_pc = "ret"
  /\ pr_ca > 0 /\ pr_cb > 0 /\ pr_ca # pr_cb
  /\ 2 * pr_wedge > pr_vee /\ pr_wedge < pr_vee

\* the matched pairs of hits1 and hits2 within one source
MatchedPairsOf(source) ==
  weights_of_pairs(OfSource(jp_hits1, source), OfSource(jp_hits2, source))

\* the shared sources with at least one matched pair
SourcesWithPairs ==
  {s \in SourcesOf(jp_hits1) \cap SourcesOf(jp_hits2) : Len(MatchedPairsOf(s)) > 0}

AllConfidencesPositive ==
  /\ \A i \in 1..Len(jp_hits1) : jp_hits1[i].confidence > 0
  /\ \A i \in 1..Len(jp_hits2) : jp_hits2[i].confidence > 0

\* C7: when some shared source has no matched pair of a hit of hits1 and a
\* hit of hits2 (and no weight is zero), _j_prime raises nothing and its
\* result is the mean of the per-source scores over the shared sources that
\* do have a matched pair; a source without one adds no score.
C7_SourcesWithoutPairsExcluded ==
  (/\ jp_pc = "ret"
   /\ AllConfidencesPositive
   /\ SourcesWithPairs # SourcesOf(jp_hits1) \cap SourcesOf(jp_hits2))
    => LET order == SetToSeq(SourcesWithPairs)
           scores == [k \in 1..Len(order) |->
                        _jx(OfSource(jp_hits1, order[k]), OfSource(jp_hits2, order[k]))]
       IN  /\ jp_ret.kind # "err"
           /\ SourcesWithPairs # {} => jp_ret = MeanOf(scores)
           /\ SourcesWithPairs = {} => jp_ret.kind # "num"

\* C8: once calc has returned, the row labels and the column labels are
\* each the N observed entity identifiers, every one exactly once.
C8_OneRowAndColumnPerEntity ==
  calc_pc = "done" =>
    /\ Len(result.rows) = Cardinality(ObservedKeys)
    /\ SeqRange(result.rows) = ObservedKeys
    /\ Len(result.cols) = Cardinality(ObservedKeys)
    /\ SeqRange(result.cols) = ObservedKeys

C8_Witness ==
  /\ calc_pc = "done"
  /\ Cardinality(ObservedKeys) = 2
  /\ Len(calc_hits) > 2
  /\ Len(result.rows) = 2 /\ Len(result.cols) = 2

\* a matched pair with both weights zero is among the pairs _jx gets when
\* _j_prime runs on an entity's hits
ZeroPairReachesJx(hits) ==
  \E s \in SourcesOf(hits) :
    LET pairs == weights_of_pairs(OfSource(hits, s), OfSource(hits, s))
    IN  \E k \in 1..Len(pairs) : elle(pairs[k][1]) = 0 /\ elle(pairs[k][2]) = 0

\* C9: calc never gets past an entity whose hits hand _jx a matched pair of
\* two zero weights: no cell of that entity is assigned, calc does not
\* return a table, and once the pair has been reached calc has raised.
C9_ZeroWeightPairRaises ==
  \A i \in 1..Len(inchikey_to_hits) :
    ZeroPairReachesJx(inchikey_to_hits[i].hits)
      => /\ pos <= i
         /\ ~DictHas(data, inchikey_to_hits[i].key)
         /\ calc_pc # "done"
         /\ result = NoDf

C9_Witness ==
  /\ calc_pc = "raised"
  /\ pos = 2
  /\ ZeroPairReachesJx(inchikey_to_hits[pos].hits)
  /\ Len(data) = 1

\* C10: on an empty hit collection calc raises nothing and the table it
\* returns has no rows and no columns.
C10_EmptyInputGivesEmptyTable ==
  calc_hits = <<>> =>
    /\ calc_pc # "raised"
    /\ calc_pc = "done" => (result.rows = <<>> /\ result.cols = <<>>)

C10_Witness ==
  /\ calc_hits = <<>>
  /\ calc_pc = "done"
  /\ result.rows = <<>> /\ result.cols = <<>>

\* hits without its i-th item
Without(hits, i) ==
  [k \in 1..(Len(hits) - 1) |-> IF k < i THEN hits[k] ELSE hits[k + 1]]

RECURSIVE PermutationsOf(_)
\* every listing of the items of hits
PermutationsOf(hits) ==
  IF hits = <<>> THEN {<<>>}
  ELSE UNION {{<<hits[i]>> \o rest : rest \in PermutationsOf(Without(hits, i))} :
                i \in 1..Len(hits)}

\* C11: _j_prime returns the same result for every permutation of the hits
\* of hits1 and every permutation of the hits of hits2.
C11_JPrimeIgnoresListingOrder ==
  jp_pc = "ret" =>
    \A p1 \in PermutationsOf(jp_hits1) :
      \A p2 \in PermutationsOf(jp_hits2) :
        _j_prime(p1, p2) = jp_ret

C11_Witness ==
  /\ jp_pc = "ret"
  /\ Len(jp_hits1) = 3
  /\ jp_hits1[1].data_source # jp_hits1[2].data_source
  /\ jp_hits1[1].data_source = jp_hits1[3].data_source
  /\ jp_hits1[1].confidence # jp_hits1[3].confidence
  /\ Cardinality(PermutationsOf(jp_hits1)) = 6
  /\ jp_ret.kind = "num" /\ jp_ret # Float(1, 1)

RECURSIVE SequentialLoop(_, _)
\* the sequential loop of lines 30-31 after its first n iterations
SequentialLoop(pairs, n) ==
  IF n = 0 THEN [raised |-> FALSE, data |-> <<>>]
  ELSE LET prev == SequentialLoop(pairs, n - 1)
           v == CellValue(prev.data, pairs[n][1].hits, pairs[n][2].hits)
       IN  IF prev.raised THEN prev
           ELSE IF v.kind = "err" THEN [raised |-> TRUE, data |-> prev.data]
           ELSE [raised |-> FALSE,
                 data |-> SetCell(prev.data, pairs[n][1].key, pairs[n][2].key, v)]

\* what the sequential calc does on hits: it raises, or returns a table
SequentialCalc(hits) ==
  LET items == hit_multidict(hits)
      pairs == Zip(items, items)
      end == SequentialLoop(pairs, Len(pairs))
  IN  [raised |-> end.raised,
       table |-> IF end.raised THEN NoDf ELSE from_dict(end.data)]

\* the same labels on each axis and the same value in every cell
SameTable(t, u) ==
  /\ SeqRange(t.rows) = SeqRange(u.rows)
  /\ SeqRange(t.cols) = SeqRange(u.cols)
  /\ t.cells = u.cells

HitsOfKey(c) == SelectSeq(calc_hits, LAMBDA h : h.origin_inchikey = c)

\* the outcome is the sequential loop's
WorkersOutcomeOk ==
  LET seq == SequentialCalc(calc_hits)
  IN  /\ calc_pc = "raised" => seq.raised
      /\ calc_pc = "done" => (~seq.raised /\ SameTable(result, seq.table))

\* what a step may do to the hits and to the cells
WorkersStepOk ==
  \* the argument hits stay as they are, and the grouped hits are theirs
  /\ calc_hits' = calc_hits
  /\ inchikey_to_hits' =
       IF calc_pc = "start" THEN hit_multidict(calc_hits) ELSE inchikey_to_hits
  \* a cell already assigned is not assigned again and keeps its value
  /\ \A m \in 1..Len(wk_log) :
       /\ wk_log'[m] = wk_log[m]
       /\ \A n \in (Len(wk_log) + 1)..Len(wk_log') : wk_log'[n] # wk_log[m]
       /\ DictGet(DictGet(data', wk_log[m][1]), wk_log[m][2])
            = DictGet(DictGet(data, wk_log[m][1]), wk_log[m][2])
  \* a cell newly assigned holds _j_prime of the hits of its own two entities
  /\ \A n \in (Len(wk_log) + 1)..Len(wk_log') :
       LET c1 == wk_log'[n][1]
           c2 == wk_log'[n][2]
       IN  /\ DictHas(data', c1) /\ DictHas(DictGet(data', c1), c2)
           /\ DictGet(DictGet(data', c1), c2) = _j_prime(HitsOfKey(c1), HitsOfKey(c2))
  \* nothing but an assignment changes data
  /\ Len(wk_log') = Len(wk_log) => data' = data

\* C12: with the pairs of the loop handled in any order, every cell is
\* assigned at most once, its value is _j_prime of its own two entities'
\* hits, no step changes the argument hits or an assigned cell, and calc
\* ends as the sequential loop does: it raises when that raises, and
\* otherwise returns a table with the same labels and the same cells.
C12_CellsAreIndependent ==
  /\ []WorkersOutcomeOk
  /\ [][WorkersStepOk]_vars

C12_Witness ==
  /\ calc_pc = "done"
  /\ Len(inchikey_to_hits) = 2
  /\ wk_log = <<<<inchikey_to_hits[2].key, inchikey_to_hits[2].key>>,
                <<inchikey_to_hits[1].key, inchikey_to_hits[1].key>>>>
  /\ result.cells[wk_log[1]] # result.cells[wk_log[2]]
  /\ result.rows # SequentialCalc(calc_hits).table.rows
  /\ SameTable(result, SequentialCalc(calc_hits).table)

====
